---- MODULE Spec2Model ----
(***************************************************************************)
(* Model of the staking program (program/src): one stake pool, its single  *)
(* escrow token account, the depositors' position records (UserInfo) and   *)
(* the token balances, driven by the instructions of processor.rs.         *)
(*                                                                         *)
(* Integers are scaled: a u64 is a value in 0..U64Max and a u128 a value   *)
(* in 0..U128Max, so that every overflow branch of the code is exercised   *)
(* with small numbers.  Checked operations return NONE on overflow, the    *)
(* unchecked operators (minus, plus, times) either abort (a build with    *)
(* overflow checks) or wrap (a build without), see overflow_checks.        *)
(***************************************************************************)
EXTENDS Integers, Sequences, FiniteSets, TLC

VARIABLES
  now,              \* clock.slot
  pool,             \* the StakePool account
  user,             \* the UserInfo accounts, by position address
  bal,              \* token account balances (spl_token Account.amount)
  overflow_checks,  \* whether the build panics on overflow of the unchecked operators
  last,             \* outcome of the last instruction processed
  history,          \* what has happened to the pool so far
  master            \* the MasterStaking account

vars == <<now, pool, user, bal, overflow_checks, last, history, master>>

----------------------------------------------------------------------------
(* Bounds of the model *)

U64Max == 1023
MaxTime == 4

U128Max == (U64Max + 1) * (U64Max + 1) - 1

----------------------------------------------------------------------------
(* Accounts *)

PoolOwner == "O"
Users == {"A", "B"}
Principals == Users \cup {PoolOwner}

\* token accounts: one per principal, and the pool's escrow account
Vault == "vault"
\* the escrow account of another pool; every escrow account has the same
\* authority, the program address of ADD_SEED_TOKEN_ACCOUNT_AUTHORITY
OtherVault == "vaultQ"
PoolTokenAccounts == {Vault, OtherVault}
TokenAccounts == {"tA", "tB", "tO"}
TokenOwner == [a \in TokenAccounts |->
                 IF a = "tA" THEN "A" ELSE IF a = "tB" THEN "B" ELSE PoolOwner]

PoolMint == "M"

\* the position address derived from (pool, token account)
PositionOf(a) == a
Positions == {PositionOf(a) : a \in {"tA", "tB"}}

----------------------------------------------------------------------------
(* Integer arithmetic *)

NONE == -1

InU64(x) == x >= 0 /\ x <= U64Max
InU128(x) == x >= 0 /\ x <= U128Max
Wrap64(x) == x % (U64Max + 1)

checked_add64(a, b) ==
  IF a = NONE \/ b = NONE THEN NONE ELSE IF InU64(a + b) THEN a + b ELSE NONE
checked_sub64(a, b) ==
  IF a = NONE \/ b = NONE THEN NONE ELSE IF InU64(a - b) THEN a - b ELSE NONE
checked_mul64(a, b) ==
  IF a = NONE \/ b = NONE THEN NONE ELSE IF InU64(a * b) THEN a * b ELSE NONE
checked_div64(a, b) ==
  IF a = NONE \/ b = NONE THEN NONE ELSE IF b = 0 THEN NONE ELSE a \div b

checked_add128(a, b) ==
  IF a = NONE \/ b = NONE THEN NONE ELSE IF InU128(a + b) THEN a + b ELSE NONE
checked_sub128(a, b) ==
  IF a = NONE \/ b = NONE THEN NONE ELSE IF InU128(a - b) THEN a - b ELSE NONE
checked_mul128(a, b) ==
  IF a = NONE \/ b = NONE THEN NONE ELSE IF InU128(a * b) THEN a * b ELSE NONE
checked_div128(a, b) ==
  IF a = NONE \/ b = NONE THEN NONE ELSE IF b = 0 THEN NONE ELSE a \div b

\* the result of a plain u64 operator whose mathematical value is x:
\* NONE stands for the panic of a build with overflow checks
plain64(x) ==
  IF InU64(x) THEN x ELSE IF overflow_checks THEN NONE ELSE Wrap64(x)
sub64(a, b) == IF a = NONE \/ b = NONE THEN NONE ELSE plain64(a - b)
add64(a, b) == IF a = NONE \/ b = NONE THEN NONE ELSE plain64(a + b)
mul64(a, b) == IF a = NONE \/ b = NONE THEN NONE ELSE plain64(a * b)

RECURSIVE checked_pow64(_, _)
checked_pow64(base, exp) ==
  IF exp = 0 THEN 1 ELSE checked_mul64(checked_pow64(base, exp - 1), base)

get_precision_factor(precision_factor_rank) ==
  checked_pow64(10, precision_factor_rank)

----------------------------------------------------------------------------
(* COption<T>: <<>> is None, <<v>> is Some(v) *)

CNone == <<>>
CSome(v) == <<v>>
unwrap_or_zero(o) == IF o = CNone THEN 0 ELSE o[1]

----------------------------------------------------------------------------
(* MasterStaking: the pool counter *)

\* state.rs 36-40: a new account holds zeroes
EmptyMasterStaking == [pool_counter |-> 0]

\* state.rs 60-68: err is "Ok" and master the updated account, or the error
increase_counter(self) ==
  LET pool_counter == checked_add64(self.pool_counter, 1)
  IN IF pool_counter = NONE THEN [err |-> "PoolCounterOverflow", master |-> self]
     ELSE [err |-> "Ok", master |-> [self EXCEPT !.pool_counter = pool_counter]]

----------------------------------------------------------------------------
(* StakePool: the accrual engine *)

\* variant: to_block is not clamped to end_block, so slots past the end count
get_multiplier_unclamped(p, from_block, to_block) ==
  LET from == IF from_block < p.start_block THEN p.start_block ELSE from_block
  IN IF to_block > from THEN to_block - from ELSE 0

\* state.rs 282-319
get_multiplier(p, from_block, to_block) ==
  LET from == IF from_block < p.start_block THEN p.start_block ELSE from_block
      to == IF p.end_block < to_block THEN p.end_block ELSE to_block
      multiplier == p.bonus_multiplier[1]
      start == unwrap_or_zero(p.bonus_start_block)
      end == unwrap_or_zero(p.bonus_end_block)
  IN IF from < start /\ to > end
       THEN add64(sub64(add64(sub64(start, from), to), end),
                  mul64(sub64(end, start), multiplier))
     ELSE IF from < start /\ to > start
       THEN add64(sub64(start, from), mul64(sub64(to, start), multiplier))
     ELSE IF from < end /\ to > end
       THEN add64(sub64(to, end), mul64(sub64(end, from), multiplier))
     ELSE IF from >= start /\ to <= end
       THEN mul64(sub64(to, from), multiplier)
     ELSE sub64(to, from)

\* variant: the accumulator is overwritten with the share of this interval
accrue_overwrite(accrued_token_per_share, reward, precision_factor, staked_token_supply) ==
  checked_div128(checked_mul128(reward, precision_factor), staked_token_supply)

\* variant: the reward of the interval is not divided by the staked supply
accrue_undivided(accrued_token_per_share, reward, precision_factor, staked_token_supply) ==
  checked_add128(accrued_token_per_share, checked_mul128(reward, precision_factor))

\* variant: the share of the interval is rounded up
accrue_rounded_up(accrued_token_per_share, reward, precision_factor, staked_token_supply) ==
  checked_add128(accrued_token_per_share,
                 checked_div128(
                   checked_sub128(
                     checked_add128(checked_mul128(reward, precision_factor),
                                    staked_token_supply), 1),
                   staked_token_supply))

\* state.rs 241-249: accrued_token_per_share + reward * precision_factor / supply
accrue(accrued_token_per_share, reward, precision_factor, staked_token_supply) ==
  checked_add128(accrued_token_per_share,
                 checked_div128(checked_mul128(reward, precision_factor),
                                staked_token_supply))

\* state.rs 264-269
next_last_reward_block(p, current_block) ==
  IF p.end_block > current_block THEN current_block ELSE p.end_block

\* variant: the window is cleared and the multiplier stays as it was set
clear_bonus_window_only(p, current_block) ==
  IF p.bonus_end_block # CNone /\ p.bonus_end_block[1] # 0
     /\ current_block > p.bonus_end_block[1]
    THEN [p EXCEPT !.bonus_start_block = CNone, !.bonus_end_block = CNone]
    ELSE p

\* state.rs 271-277
clear_bonus(p, current_block) ==
  IF p.bonus_end_block # CNone /\ p.bonus_end_block[1] # 0
     /\ current_block > p.bonus_end_block[1]
    THEN [p EXCEPT !.bonus_start_block = CNone,
                   !.bonus_end_block = CNone,
                   !.bonus_multiplier = CSome(1)]
    ELSE p

\* the result of update_pool: err = "Ok" and the updated pool, or the error
update_pool(p, staked_token_supply, current_block) ==
  IF current_block <= p.last_reward_block
    THEN [err |-> "Ok", pool |-> p]
  ELSE IF staked_token_supply = 0
    THEN [err |-> "Ok", pool |-> [p EXCEPT !.last_reward_block = current_block]]
  ELSE
    LET multiplier == get_multiplier(p, p.last_reward_block, current_block)
        reward == checked_mul64(multiplier, p.reward_per_block)
        precision_factor == get_precision_factor(p.precision_factor_rank)
        accrued == accrue(p.accrued_token_per_share, reward, precision_factor,
                          staked_token_supply)
    IN IF multiplier = NONE THEN [err |-> "Panic", pool |-> p]
       ELSE IF reward = NONE THEN [err |-> "RewardOverflow", pool |-> p]
       ELSE IF precision_factor = NONE THEN [err |-> "Overflow", pool |-> p]
       ELSE IF checked_mul128(reward, precision_factor) = NONE
         THEN [err |-> "RewardMulPrecisionOverflow", pool |-> p]
       ELSE IF accrued = NONE
         THEN [err |-> "AccuredTokenPerShareOverflow", pool |-> p]
       ELSE [err |-> "Ok",
             pool |-> clear_bonus(
                        [p EXCEPT !.accrued_token_per_share = accrued,
                                  !.last_reward_block =
                                     next_last_reward_block(p, current_block)],
                        current_block)]

----------------------------------------------------------------------------
(* UserInfo bookkeeping *)

get_pending(current_amount, accrued_token_per_share, precision_factor_rank, reward_debt) ==
  LET precision_factor == get_precision_factor(precision_factor_rank)
      pending == checked_sub128(
                   checked_div128(
                     checked_mul128(current_amount, accrued_token_per_share),
                     precision_factor),
                   reward_debt)
  IN IF precision_factor = NONE \/ pending = NONE THEN NONE
     ELSE IF InU64(pending) THEN pending ELSE NONE

get_reward_debt(user_amount, accrued_token_per_share, precision_factor_rank) ==
  LET precision_factor == get_precision_factor(precision_factor_rank)
      reward_debt == checked_div128(
                       checked_mul128(user_amount, accrued_token_per_share),
                       precision_factor)
  IN IF precision_factor = NONE \/ reward_debt = NONE THEN NONE
     ELSE Wrap64(reward_debt)

----------------------------------------------------------------------------
(* The accounts an instruction works on, and its outcome *)

\* spl_token transfer of amount from one token account to another
transfer(b, src, dst, amount) ==
  [[b EXCEPT ![src] = @ - amount] EXCEPT ![dst] = @ + amount]

\* variant: the accounts stay as the failed instruction left them
rollback_kept(s, at) == at

\* Processor::process returns the Err of the instruction: the runtime then
\* discards every account change the instruction and its invocations made
rollback(s, at) == s

\* an instruction that started on the accounts s and failed with e when the
\* accounts were at: pool, user and bal are the accounts after the instruction
FailAt(s, at, e) ==
  LET back == rollback(s, at)
  IN [err |-> e, pool |-> back.pool, user |-> back.user, bal |-> back.bal,
      principal |-> 0, reward |-> 0, at |-> at]

\* a failure before anything was written, created or transferred
Fail(s, e) == FailAt(s, s, e)

Done(pool_, user_, bal_, principal_, reward_) ==
  [err |-> "Ok", pool |-> pool_, user |-> user_, bal |-> bal_,
   principal |-> principal_, reward |-> reward_,
   at |-> [pool |-> pool_, user |-> user_, bal |-> bal_]]

EmptyUserInfo == [exists |-> FALSE, token_account_id |-> "", amount |-> 0,
                  reward_debt |-> 0]

NewUserInfo(a) == [exists |-> TRUE, token_account_id |-> a, amount |-> 0,
                   reward_debt |-> 0]

EmptyStakePool ==
  [owner |-> "", mint |-> "", is_initialized |-> 0,
   precision_factor_rank |-> 0,
   bonus_multiplier |-> CNone, bonus_start_block |-> CNone,
   bonus_end_block |-> CNone,
   last_reward_block |-> 0, start_block |-> 0, end_block |-> 0,
   reward_amount |-> 0, reward_per_block |-> 0,
   accrued_token_per_share |-> 0,
   project_info |-> ""]

\* variant: only the mint is compared
validate_stake_pool_mint_only(stake_pool, owner_key, mint_key) ==
  ~ (stake_pool.mint # mint_key)

\* processor.rs 1010-1021
validate_stake_pool(stake_pool, owner_key, mint_key) ==
  ~ (stake_pool.owner # owner_key \/ stake_pool.mint # mint_key)

\* spl_token checks of a transfer out of token account a under authority k
owner_can_transfer(b, k, is_signer, a, amount) ==
  is_signer /\ TokenOwner[a] = k /\ b[a] >= amount

MAX_DECIMALS == 21

----------------------------------------------------------------------------
(* Processor::process_initialize *)

\* variant: the quotient is rounded up
initial_reward_per_block_up(reward_amount, start_block, end_block) ==
  LET blocks == checked_sub64(end_block, start_block)
  IN checked_div64(checked_sub64(checked_add64(reward_amount, blocks), 1), blocks)

\* processor.rs 332-337: reward_amount / (end_block - start_block)
initial_reward_per_block(reward_amount, start_block, end_block) ==
  checked_div64(reward_amount, checked_sub64(end_block, start_block))

process_initialize(s, k, is_signer, ta, decimals, reward_amount, start_block, end_block) ==
  LET precision_factor_rank == checked_sub64(MAX_DECIMALS, decimals)
      reward_per_block ==
        initial_reward_per_block(reward_amount, start_block, end_block)
      \* the escrow is created and funded (218-268) before the checks of 326-337
      funded == [s EXCEPT !.bal = transfer(s.bal, ta, Vault, reward_amount)]
  IN IF ~ is_signer THEN Fail(s, "MissingRequiredSignature")
     ELSE IF TokenOwner[ta] # k THEN Fail(s, "OwnerMismatch")
     ELSE IF s.pool.is_initialized # 0 THEN Fail(s, "AccountAlreadyInUse")
     ELSE IF s.bal[ta] < reward_amount THEN Fail(s, "InsufficientFunds")
     ELSE IF ~ (decimals < MAX_DECIMALS)
       THEN FailAt(s, funded, "Panic: Token decimals must be inferior to 21")
     ELSE IF precision_factor_rank = NONE THEN FailAt(s, funded, "Overflow")
     ELSE IF reward_per_block = NONE THEN FailAt(s, funded, "Overflow")
     ELSE Done([owner |-> k, mint |-> PoolMint, is_initialized |-> 1,
                precision_factor_rank |-> precision_factor_rank,
                bonus_multiplier |-> CSome(1),
                bonus_start_block |-> CNone,
                bonus_end_block |-> CNone,
                last_reward_block |-> 0,
                start_block |-> start_block,
                end_block |-> end_block,
                reward_amount |-> reward_amount,
                reward_per_block |-> reward_per_block,
                accrued_token_per_share |-> 0,
                project_info |-> "v1"],
               s.user,
               funded.bal,
               0, 0)

----------------------------------------------------------------------------
(* Processor::process_deposit *)

\* variant: a deposit that never settles the pending reward
deposit_pending_never(current_amount, stake_pool, reward_debt) == 0

\* processor.rs 498-540: the pending reward a deposit pays out
deposit_pending(current_amount, stake_pool, reward_debt) ==
  IF current_amount > 0
    THEN get_pending(current_amount, stake_pool.accrued_token_per_share,
                     stake_pool.precision_factor_rank, reward_debt)
    ELSE 0

\* variant: the reward debt is computed on the stake before the deposit
deposit_reward_debt_stale(current_amount, new_amount, stake_pool) ==
  get_reward_debt(current_amount, stake_pool.accrued_token_per_share,
                  stake_pool.precision_factor_rank)

\* processor.rs 541-547: the reward debt a deposit stores
deposit_reward_debt(current_amount, new_amount, stake_pool) ==
  get_reward_debt(new_amount, stake_pool.accrued_token_per_share,
                  stake_pool.precision_factor_rank)

\* variant: a payout leaves reward_amount as it was
remaining_reward_kept(reward_amount, pending) == reward_amount

\* processor.rs 535-538 and 686-689: reward_amount.checked_sub(pending)
remaining_reward(reward_amount, pending) == checked_sub64(reward_amount, pending)

\* processor.rs 392-398: the escrow account is the one the caller supplies;
\* it is checked against the authority account supplied with it, not
\* against the pool (the calls modelled supply the program's authority)
pool_token_account_ok(pool_token_account) ==
  pool_token_account \in PoolTokenAccounts

process_deposit(s, k, is_signer, a, pool_token_account, p, amount) ==
  LET created == ~ s.user[p].exists
      user_data0 == IF created THEN NewUserInfo(a) ELSE s.user[p]
      \* the position record is created and written (405-457) before the transfer
      opened == [s EXCEPT !.user[p] = user_data0]
      bal1 == transfer(s.bal, a, pool_token_account, amount)
      \* the escrow account was unpacked before the transfer (line 392)
      up == update_pool(s.pool, s.bal[pool_token_account], now)
      stake_pool == up.pool
      current_amount == user_data0.amount
      new_amount == checked_add64(user_data0.amount, amount)
      pending == deposit_pending(current_amount, stake_pool, user_data0.reward_debt)
      pays == current_amount > 0 /\ pending > 0
      bal2 == IF pays THEN transfer(bal1, pool_token_account, a, pending) ELSE bal1
      reward_amount == IF pays THEN remaining_reward(stake_pool.reward_amount, pending)
                       ELSE stake_pool.reward_amount
      reward_debt == deposit_reward_debt(current_amount, new_amount, stake_pool)
      taken == [opened EXCEPT !.bal = bal1]
      paid == [opened EXCEPT !.bal = bal2]
  IN IF s.pool.is_initialized = 0 THEN Fail(s, "Panic")
     ELSE IF ~ pool_token_account_ok(pool_token_account) THEN Fail(s, "IllegalOwner")
     ELSE IF created /\ p # PositionOf(a) THEN Fail(s, "PrivilegeEscalation")
     ELSE IF ~ owner_can_transfer(s.bal, k, is_signer, a, amount)
       THEN FailAt(s, opened, "TransferFailed")
     ELSE IF up.err # "Ok" THEN FailAt(s, taken, "Panic")
     ELSE IF new_amount = NONE THEN FailAt(s, taken, "Overflow")
     ELSE IF pending = NONE THEN FailAt(s, taken, "Panic")
     ELSE IF pays /\ bal1[pool_token_account] < pending
       THEN FailAt(s, taken, "InsufficientFunds")
     ELSE IF reward_amount = NONE THEN FailAt(s, paid, "Overflow")
     ELSE IF reward_debt = NONE THEN FailAt(s, paid, "Overflow")
     ELSE Done([stake_pool EXCEPT !.reward_amount = reward_amount],
               [s.user EXCEPT ![p] = [user_data0 EXCEPT
                                        !.amount = new_amount,
                                        !.reward_debt = reward_debt]],
               bal2, amount, IF pays THEN pending ELSE 0)

----------------------------------------------------------------------------
(* Processor::process_withdraw *)

\* variant: no amount check, the subtraction is left to catch the excess
withdraw_amount_unchecked(user_data, amount) == TRUE

\* processor.rs 608: assert!(user_data.amount >= amount, ...)
withdraw_amount_ok(user_data, amount) == user_data.amount >= amount

\* variant: the pending reward is computed on the stake after the withdrawal
withdraw_pending_after(current_amount, new_amount, stake_pool, reward_debt) ==
  get_pending(new_amount, stake_pool.accrued_token_per_share,
              stake_pool.precision_factor_rank, reward_debt)

\* processor.rs 644-650: the pending reward a withdraw pays out
withdraw_pending(current_amount, new_amount, stake_pool, reward_debt) ==
  get_pending(current_amount, stake_pool.accrued_token_per_share,
              stake_pool.precision_factor_rank, reward_debt)

\* processor.rs 562-606: the account checks of withdraw, "Ok" or the error
withdraw_accounts(s, k, is_signer, a, p) ==
  IF TokenOwner[a] # k THEN "OwnerMismatch"
  ELSE IF ~ is_signer THEN "MissingRequiredSignature"
  ELSE IF s.pool.is_initialized = 0 THEN "Panic"
  ELSE IF ~ s.user[p].exists THEN "Panic"
  ELSE "Ok"

process_withdraw(s, k, is_signer, a, pool_token_account, p, amount) ==
  LET accounts == withdraw_accounts(s, k, is_signer, a, p)
      user_data == s.user[p]
      up == update_pool(s.pool, s.bal[pool_token_account], now)
      stake_pool == up.pool
      current_amount == user_data.amount
      new_amount == IF amount > 0 THEN checked_sub64(user_data.amount, amount)
                    ELSE user_data.amount
      bal1 == IF amount > 0 THEN transfer(s.bal, pool_token_account, a, amount)
              ELSE s.bal
      pending == withdraw_pending(current_amount, new_amount, stake_pool,
                                  user_data.reward_debt)
      bal2 == IF pending > 0 THEN transfer(bal1, pool_token_account, a, pending)
              ELSE bal1
      reward_debt == get_reward_debt(new_amount, stake_pool.accrued_token_per_share,
                                     stake_pool.precision_factor_rank)
      reward_amount == remaining_reward(stake_pool.reward_amount, pending)
      user_ == [s.user EXCEPT ![p] = [user_data EXCEPT
                                         !.amount = new_amount,
                                         !.reward_debt = reward_debt]]
      taken == [s EXCEPT !.bal = bal1]
      paid == [s EXCEPT !.bal = bal2]
      written == [s EXCEPT !.bal = bal2, !.user = user_]
  IN IF accounts # "Ok" THEN Fail(s, accounts)
     ELSE IF ~ pool_token_account_ok(pool_token_account) THEN Fail(s, "IllegalOwner")
     ELSE IF ~ withdraw_amount_ok(user_data, amount)
       THEN Fail(s, "Panic: Amount to withdraw too high")
     ELSE IF up.err # "Ok" THEN Fail(s, up.err)
     ELSE IF new_amount = NONE THEN Fail(s, "Overflow")
     ELSE IF amount > 0 /\ s.bal[pool_token_account] < amount
       THEN Fail(s, "InsufficientFunds")
     ELSE IF pending = NONE THEN FailAt(s, taken, "Panic")
     ELSE IF pending > 0 /\ bal1[pool_token_account] < pending
       THEN FailAt(s, taken, "InsufficientFunds")
     ELSE IF reward_debt = NONE THEN FailAt(s, paid, "Overflow")
     ELSE IF reward_amount = NONE THEN FailAt(s, written, "Overflow")
     ELSE Done([stake_pool EXCEPT !.reward_amount = reward_amount],
               user_, bal2, amount, pending)

----------------------------------------------------------------------------
(* Processor::process_emergency_withdraw *)

\* processor.rs 706-740: the account checks of emergency_withdraw
emergency_withdraw_accounts(s, k, is_signer, a, p) ==
  IF ~ is_signer THEN "MissingRequiredSignature"
  ELSE IF TokenOwner[a] # k THEN "OwnerMismatch"
  ELSE IF s.pool.is_initialized = 0 THEN "Panic"
  ELSE IF ~ s.user[p].exists THEN "Panic"
  ELSE "Ok"

\* variant: emergency_withdraw runs update_pool as withdraw does
emergency_withdraw_pool_updated(stake_pool, supply) ==
  update_pool(stake_pool, supply, now).pool

\* processor.rs 736: the pool is read and never written
emergency_withdraw_pool(stake_pool, supply) == stake_pool

\* variant: the tokens leave but the stake stays on the record
emergency_withdraw_user_kept(user_data, amount_to_transfer) == user_data

\* processor.rs 742-781: the position record emergency_withdraw stores
emergency_withdraw_user(user_data, amount_to_transfer) ==
  [user_data EXCEPT !.amount = checked_sub64(user_data.amount, amount_to_transfer)]

process_emergency_withdraw(s, k, is_signer, a, pool_token_account, p) ==
  LET accounts == emergency_withdraw_accounts(s, k, is_signer, a, p)
      user_data == s.user[p]
      amount_to_transfer == user_data.amount
  IN IF accounts # "Ok" THEN Fail(s, accounts)
     ELSE IF ~ pool_token_account_ok(pool_token_account) THEN Fail(s, "IllegalOwner")
     ELSE IF amount_to_transfer > 0 /\ s.bal[pool_token_account] < amount_to_transfer
       THEN Fail(s, "InsufficientFunds")
     ELSE Done(emergency_withdraw_pool(s.pool, s.bal[pool_token_account]),
               IF amount_to_transfer > 0
                 THEN [s.user EXCEPT ![p] =
                         emergency_withdraw_user(user_data, amount_to_transfer)]
                 ELSE s.user,
               IF amount_to_transfer > 0
                 THEN transfer(s.bal, pool_token_account, a, amount_to_transfer)
                 ELSE s.bal,
               amount_to_transfer, 0)

----------------------------------------------------------------------------
(* Processor::process_set_bonus_time *)

\* variant: a window may begin before the pool does
bonus_starts_anywhere(stake_pool, bonus_start_block) == TRUE

\* processor.rs 863: assert!(bonus_start_block >= stake_pool.start_block, ...)
bonus_starts_in_pool(stake_pool, bonus_start_block) ==
  bonus_start_block >= stake_pool.start_block

process_set_bonus_time(s, k, is_signer, mint, bonus_multiplier, bonus_start_block, bonus_end_block) ==
  LET up == update_pool(s.pool, s.bal[Vault], now)
      stake_pool == up.pool
      shortened == mul64(sub64(bonus_end_block, bonus_start_block),
                         sub64(bonus_multiplier, 1))
      end_block == checked_sub64(stake_pool.end_block, shortened)
  IN IF ~ is_signer THEN Fail(s, "MissingRequiredSignature")
     ELSE IF s.pool.is_initialized = 0 THEN Fail(s, "Panic")
     ELSE IF ~ validate_stake_pool(s.pool, k, mint) THEN Fail(s, "StakePoolMissmatch")
     ELSE IF ~ (bonus_start_block < bonus_end_block) THEN Fail(s, "Panic")
     ELSE IF ~ bonus_starts_in_pool(s.pool, bonus_start_block)
       THEN Fail(s, "Panic: Cant set early than start time")
     ELSE IF up.err # "Ok" THEN Fail(s, up.err)
     ELSE IF ~ (stake_pool.bonus_end_block = CNone)
       THEN Fail(s, "Panic: Can't start another Bonus time")
     ELSE IF shortened = NONE THEN Fail(s, "Panic")
     ELSE IF end_block = NONE THEN Fail(s, "Overflow")
     ELSE IF ~ (end_block > now /\ end_block > stake_pool.start_block)
       THEN Fail(s, "Panic: Not enough rewards for Bonus")
     ELSE Done([stake_pool EXCEPT
                  !.bonus_end_block =
                     IF end_block < bonus_end_block THEN CSome(end_block)
                     ELSE CSome(bonus_end_block),
                  !.bonus_multiplier = CSome(bonus_multiplier),
                  !.bonus_start_block = CSome(bonus_start_block),
                  !.end_block = end_block],
               s.user, s.bal, 0, 0)

----------------------------------------------------------------------------
(* Processor::process_update_end_block *)

\* variant: an end_block equal to the stored one is let through
end_block_extends_or_keeps(stake_pool, end_block) == end_block >= stake_pool.end_block

\* processor.rs 925: assert!(end_block > stake_pool.end_block, "Cannot shorten")
end_block_extends(stake_pool, end_block) == end_block > stake_pool.end_block

process_update_end_block(s, k, is_signer, mint, ra, end_block) ==
  LET stake_pool == s.pool
      blocks_added == sub64(end_block, stake_pool.end_block)
      to_transfer == mul64(blocks_added, stake_pool.reward_per_block)
      reward_amount == checked_add64(stake_pool.reward_amount, to_transfer)
  IN IF s.pool.is_initialized = 0 THEN Fail(s, "Panic")
     ELSE IF ~ validate_stake_pool(stake_pool, k, mint) THEN Fail(s, "StakePoolMissmatch")
     ELSE IF ~ (stake_pool.end_block > now) THEN Fail(s, "Panic: Pool already finished")
     ELSE IF ~ end_block_extends(stake_pool, end_block)
       THEN Fail(s, "Panic: Cannot shorten")
     ELSE IF to_transfer = NONE THEN Fail(s, "Panic")
     ELSE IF ~ owner_can_transfer(s.bal, k, is_signer, ra, to_transfer)
       THEN Fail(s, "TransferFailed")
     ELSE IF reward_amount = NONE
       THEN FailAt(s, [s EXCEPT !.bal = transfer(s.bal, ra, Vault, to_transfer)],
                   "Overflow")
     ELSE Done([stake_pool EXCEPT !.reward_amount = reward_amount,
                                  !.end_block = end_block],
               s.user, transfer(s.bal, ra, Vault, to_transfer), 0, 0)

----------------------------------------------------------------------------
(* Processor::process_update_project_info *)

\* pool_name, project_link and theme_id are one value, project_info
process_update_project_info(s, k, is_signer, mint, project_info) ==
  IF ~ is_signer THEN Fail(s, "MissingRequiredSignature")
  ELSE IF s.pool.is_initialized = 0 THEN Fail(s, "Panic")
  ELSE IF ~ validate_stake_pool(s.pool, k, mint) THEN Fail(s, "StakePoolMissmatch")
  ELSE Done([s.pool EXCEPT !.project_info = project_info], s.user, s.bal, 0, 0)

----------------------------------------------------------------------------
(* The instructions as steps of the system *)

OwnerFunds == 12
\* what the escrow account of the other pool holds
OtherFunds == 3

Amounts == {0, 1, 2}
NewEndBlocks == {3, 4}
BonusMultipliers == {2, 3}
BonusWindows == {<<1, 2>>, <<2, 3>>, <<2, 1>>}

\* the pools initialize is asked for:
\* <<decimals of the mint, reward_amount, start_block, end_block>>
PoolConfigs == {<<20, 8, 1, 3>>}
MorePoolConfigs ==
  {<<20, 6, 1, 3>>, <<20, 1, 2, 3>>, <<20, 6, 2, 3>>, <<20, 1, 1, 3>>, <<17, 6, 1, 3>>,
   <<21, 6, 1, 3>>, <<20, 6, 3, 3>>, <<20, 0, 1, 3>>}

\* arguments of the owner's instructions that reach the overflow of the
\* unchecked products: (9 - 1) * (129 - 1) and (259 - 3) * 4 are U64Max + 1
WideMultipliers == {1, 2, 129}
WideWindows == {<<1, 2>>, <<2, 1>>, <<0, 1>>, <<1, 9>>}
WideEndBlocks == {3, 4, 259}
ProjectInfos == {"v1", "v2"}

\* the accounts a depositor's instruction names:
\* <<the key given as owner, whether it signed, token account, position,
\*   the escrow account>>
OwnCalls == {<<"A", TRUE, "tA", "tA", Vault>>, <<"B", TRUE, "tB", "tB", Vault>>}
UserCalls == OwnCalls \cup {<<"A", TRUE, "tA", "tB", Vault>>}
SoleCalls == {<<"A", TRUE, "tA", "tA", Vault>>}

\* the accounts an owner's instruction names:
\* <<the key given as owner, whether it signed, mint>>
OwnerCalls ==
  {<<PoolOwner, TRUE, PoolMint>>, <<PoolOwner, FALSE, PoolMint>>,
   <<"A", TRUE, PoolMint>>, <<PoolOwner, TRUE, "X">>}

\* the failures that are remembered
Recorded ==
  {"Panic: Amount to withdraw too high", "Panic: Cannot shorten",
   "Panic: Pool already finished"}

State == [pool |-> pool, user |-> user, bal |-> bal]

NoOutcome ==
  [op |-> "none", err |-> "Ok", acct |-> "", pos |-> "", amount |-> 0,
   principal |-> 0, reward |-> 0, first |-> FALSE]

\* what is remembered of an instruction: its arguments and payments if it
\* succeeded, its error if it failed with a remembered one; any other
\* failure leaves no trace at all
Outcome(op_, r, a, p, amount_, first_) ==
  IF r.err = "Ok"
    THEN [op |-> op_, err |-> "Ok", acct |-> a, pos |-> p, amount |-> amount_,
          principal |-> r.principal, reward |-> r.reward, first |-> first_]
  ELSE IF r.err \in Recorded
    THEN [NoOutcome EXCEPT !.op = op_, !.err = r.err, !.acct = a, !.pos = p,
                           !.amount = amount_]
  ELSE last

\* the scenario of two depositors sharing a pool: reward 8 over 2 slots,
\* A stakes 1 at the start, B stakes 1 one slot later, both claim at the end;
\* by stake share and time A earns 4 + 2 and B earns 2 of the 8
ScenarioB == [reward |-> 8, slots |-> 2, stake |-> 1]

\* how far the instructions processed so far have followed ScenarioB
ScenarioStep ==
  LET st == history.scenario
      o == last'
      own(a) == o.acct = a /\ o.pos = PositionOf(a)
  IN IF o.err # "Ok" THEN st
     ELSE IF st = "start" /\ o.op = "initialize"
             /\ pool'.reward_amount = ScenarioB.reward
             /\ pool'.start_block = now
             /\ pool'.end_block = now + ScenarioB.slots
       THEN "funded"
     ELSE IF st = "funded" /\ o.op = "deposit" /\ own("tA")
             /\ o.amount = ScenarioB.stake /\ now = pool.start_block
       THEN "a_in"
     ELSE IF st = "a_in" /\ o.op = "tick" /\ now' = pool.start_block + 1
       THEN "a_in"
     ELSE IF st = "a_in" /\ o.op = "deposit" /\ own("tB")
             /\ o.amount = ScenarioB.stake /\ now = pool.start_block + 1
       THEN "b_in"
     ELSE IF st = "b_in" /\ o.op = "tick" /\ now' = pool.end_block
       THEN "b_in"
     ELSE IF st = "b_in" /\ o.op = "withdraw" /\ o.amount = 0
             /\ now = pool.end_block /\ own("tA")
       THEN "a_paid"
     ELSE IF st = "b_in" /\ o.op = "withdraw" /\ o.amount = 0
             /\ now = pool.end_block /\ own("tB")
       THEN "b_paid"
     ELSE IF st = "a_paid" /\ o.op = "withdraw" /\ o.amount = 0 /\ own("tB")
       THEN "both_paid"
     ELSE IF st = "b_paid" /\ o.op = "withdraw" /\ o.amount = 0 /\ own("tA")
       THEN "both_paid"
     ELSE "off"

\* the step is an instruction whose update_pool, at or after end_block, got
\* past the early return on an escrow that was not empty
ClosingStep ==
  /\ last'.op \in {"deposit", "withdraw", "set_bonus_time"}
  /\ last'.err = "Ok"
  /\ pool.is_initialized = 1
  /\ now >= pool.end_block
  /\ now > pool.last_reward_block
  /\ bal[Vault] > 0

\* history after a step: a step that changed nothing is no instruction
Observed ==
  IF <<now', pool', user', bal', last'>> = <<now, pool, user, bal, last>>
    THEN history
    ELSE [bonus_sets |->
            IF last'.op = "set_bonus_time" /\ last'.err = "Ok"
                 /\ history.bonus_sets < 2
              THEN history.bonus_sets + 1
              ELSE history.bonus_sets,
          scenario |-> ScenarioStep,
          closed |-> history.closed \/ ClosingStep]

Commit(r) ==
  /\ pool' = r.pool
  /\ user' = r.user
  /\ bal' = r.bal
  /\ UNCHANGED <<now, overflow_checks, master>>

Init ==
  /\ now = 1
  /\ pool = EmptyStakePool
  /\ user = [p \in Positions |-> EmptyUserInfo]
  /\ bal = [a \in TokenAccounts \cup PoolTokenAccounts |->
              IF a = Vault THEN 0
              ELSE IF a = OtherVault THEN OtherFunds
              ELSE IF a = "tO" THEN OwnerFunds
              ELSE IF a = "tA" THEN 2 ELSE 1]
  /\ overflow_checks \in BOOLEAN
  /\ last = NoOutcome
  /\ history = [bonus_sets |-> 0, scenario |-> "start", closed |-> FALSE]
  /\ master = EmptyMasterStaking

Tick ==
  /\ now < MaxTime
  /\ now' = now + 1
  /\ last' = [NoOutcome EXCEPT !.op = "tick"]
  /\ UNCHANGED <<pool, user, bal, overflow_checks, master>>
  /\ history' = Observed

Initialize(configs) ==
  \E c \in OwnerCalls, g \in configs :
    LET r == process_initialize(State, c[1], c[2], "tO", g[1], g[2], g[3], g[4])
    IN /\ c[1] = PoolOwner
       /\ Commit(r)
       /\ last' = Outcome("initialize", r, "tO", "", g[2], FALSE)
       /\ history' = Observed

\* a deposit into a position that holds no stake
IsFirstDeposit(p) == user[p].amount = 0

Deposit(calls) ==
  \E c \in calls, amount \in Amounts :
    LET a == c[3]
        p == c[4]
        r == process_deposit(State, c[1], c[2], a, c[5], p, amount)
    IN /\ Commit(r)
       /\ last' = Outcome("deposit", r, a, p, amount, IsFirstDeposit(p))
       /\ history' = Observed

\* a withdraw that undoes the deposit just made: same accounts, same amount,
\* same slot, the deposit being the first into its position
IsRoundTrip(a, p, amount) ==
  /\ last.op = "deposit" /\ last.err = "Ok" /\ last.first
  /\ last.acct = a /\ last.pos = p /\ last.amount = amount

Withdraw(calls) ==
  \E c \in calls, amount \in Amounts :
    LET a == c[3]
        p == c[4]
        r == process_withdraw(State, c[1], c[2], a, c[5], p, amount)
    IN /\ Commit(r)
       /\ last' = Outcome("withdraw", r, a, p, amount, IsRoundTrip(a, p, amount))
       /\ history' = Observed

EmergencyWithdraw(calls) ==
  \E c \in calls :
    LET a == c[3]
        p == c[4]
        r == process_emergency_withdraw(State, c[1], c[2], a, c[5], p)
    IN /\ Commit(r)
       /\ last' = Outcome("emergency_withdraw", r, a, p, 0, FALSE)
       /\ history' = Observed

SetBonusTime(multipliers, windows) ==
  \E c \in OwnerCalls, bonus_multiplier \in multipliers, w \in windows :
    LET r == process_set_bonus_time(State, c[1], c[2], c[3], bonus_multiplier,
                                    w[1], w[2])
    IN /\ Commit(r)
       /\ last' = Outcome("set_bonus_time", r, "", "", w[2], FALSE)
       /\ history' = Observed

UpdateEndBlock(end_blocks) ==
  \E c \in OwnerCalls, end_block \in end_blocks :
    LET r == process_update_end_block(State, c[1], c[2], c[3], "tO", end_block)
    IN /\ Commit(r)
       /\ last' = Outcome("update_end_block", r, "tO", "", end_block, FALSE)
       /\ history' = Observed

UpdateProjectInfo ==
  \E c \in OwnerCalls, project_info \in ProjectInfos :
    LET r == process_update_project_info(State, c[1], c[2], c[3], project_info)
    IN /\ Commit(r)
       /\ last' = Outcome("update_project_info", r, "", "", 0, FALSE)
       /\ history' = Observed

\* two depositors on one pool
Next ==
  \/ Tick
  \/ Initialize(PoolConfigs)
  \/ Deposit(UserCalls)
  \/ Withdraw(UserCalls)
  \/ EmergencyWithdraw(UserCalls)

Spec == Init /\ [][Next]_vars

\* one depositor, every pool, the owner's instructions
NextPool ==
  \/ Tick
  \/ Initialize(MorePoolConfigs)
  \/ Deposit(SoleCalls)
  \/ Withdraw(SoleCalls)
  \/ EmergencyWithdraw(SoleCalls)
  \/ SetBonusTime(BonusMultipliers, BonusWindows)
  \/ UpdateEndBlock(NewEndBlocks)

SpecPool == Init /\ [][NextPool]_vars

\* the owner's instructions alone, with every kind of argument
NextOwner ==
  \/ Tick
  \/ Initialize(PoolConfigs)
  \/ SetBonusTime(WideMultipliers, WideWindows)
  \/ UpdateEndBlock(WideEndBlocks)
  \/ UpdateProjectInfo

SpecOwner == Init /\ [][NextOwner]_vars

\* a pool without reward funds; depositor A may name either escrow account,
\* depositor B names the pool's own
UnfundedPoolConfigs == {<<20, 0, 1, 3>>}
CrossCalls ==
  {<<"A", TRUE, "tA", "tA", Vault>>, <<"A", TRUE, "tA", "tA", OtherVault>>,
   <<"B", TRUE, "tB", "tB", Vault>>}

NextEscrow ==
  \/ Initialize(UnfundedPoolConfigs)
  \/ Deposit(CrossCalls)
  \/ Withdraw(CrossCalls)
  \/ EmergencyWithdraw(CrossCalls)

SpecEscrow == Init /\ [][NextEscrow]_vars

----------------------------------------------------------------------------
(* What the claims speak of *)

\* the last instruction succeeded and was one of ops
Did(ops) == last.op \in ops /\ last.err = "Ok"

\* precision_factor and pending as numbers, free of any integer width
PrecisionFactor(p) == 10 ^ p.precision_factor_rank
Share(amount, p) == (amount * p.accrued_token_per_share) \div PrecisionFactor(p)

AnyBalance == 0 .. (OwnerFunds + 3)
AnyTime == 0 .. (MaxTime + 1)

----------------------------------------------------------------------------
\* C1: accrued_token_per_share of the pool never decreases: whatever the
\* instruction and the slot, the value stored after a step is at least the
\* value stored before it.
C1_AccruedNeverDecreases ==
  [][pool'.accrued_token_per_share >= pool.accrued_token_per_share]_vars

\* accrual has happened, and an instruction that ran update_pool came after
C1_Witness ==
  /\ pool.accrued_token_per_share > 0
  /\ now > pool.start_block + 1
  /\ Did({"deposit", "withdraw", "set_bonus_time"})

----------------------------------------------------------------------------
\* C2: update_pool is idempotent per slot: in every reachable pool state, for
\* every escrow balance and every slot, a second update_pool with the same
\* slot and balance succeeds and changes neither accrued_token_per_share nor
\* last_reward_block, also past end_block.
C2_UpdatePoolIdempotent ==
  pool.is_initialized = 1 =>
    \A b \in AnyBalance, t \in AnyTime :
      LET once == update_pool(pool, b, t)
          twice == update_pool(once.pool, b, t)
      IN once.err = "Ok" =>
           /\ twice.err = "Ok"
           /\ twice.pool.accrued_token_per_share = once.pool.accrued_token_per_share
           /\ twice.pool.last_reward_block = once.pool.last_reward_block

\* update_pool has run past end_block with stake in the escrow: the slot is
\* still after last_reward_block, so a second call computes the accrual again
C2_Witness ==
  /\ Did({"deposit", "withdraw"})
  /\ now > pool.end_block
  /\ pool.last_reward_block = pool.end_block
  /\ pool.accrued_token_per_share > 0
  /\ bal[Vault] > 0

----------------------------------------------------------------------------
\* C3: withdraw and emergency_withdraw act only on the position of the signing
\* depositor: a call that names another depositor's position takes no stake
\* off it and moves no tokens out of the escrow, so whenever one of the two
\* succeeds having moved tokens, the position it acted on is the one derived
\* from the caller's own token account.
C3_OnlyOwnPosition ==
  (Did({"withdraw", "emergency_withdraw"}) /\ last.principal + last.reward > 0)
    => last.pos = PositionOf(last.acct)

----------------------------------------------------------------------------
\* C4: emergency_withdraw on a position with stake s > 0 moves exactly s from
\* the escrow to the depositor, pays no reward and leaves the stake at 0 with
\* nothing claimable; and no instruction on a position whose stake is 0 pays a
\* reward, so what was forfeited is not paid later.
C4_EmergencyForfeits ==
  [][/\ (last'.op = "emergency_withdraw" /\ last'.err = "Ok"
           /\ user[last'.pos].amount > 0) =>
          /\ bal'[last'.acct] = bal[last'.acct] + user[last'.pos].amount
          /\ bal'[Vault] = bal[Vault] - user[last'.pos].amount
          /\ last'.reward = 0
          /\ user'[last'.pos].amount = 0
          /\ Share(user'[last'.pos].amount, pool') <= user'[last'.pos].reward_debt
     /\ (last'.op \in {"deposit", "withdraw", "emergency_withdraw"}
           /\ last'.err = "Ok"
           /\ (~ user[last'.pos].exists \/ user[last'.pos].amount = 0)) =>
          /\ last'.reward = 0
          /\ bal'[Vault] - bal[Vault] = user'[last'.pos].amount
    ]_vars

\* an emergency_withdraw has just given up a pending reward that was positive
C4_Witness ==
  /\ Did({"emergency_withdraw"})
  /\ last.principal > 0
  /\ Share(last.principal, pool) > user[last.pos].reward_debt

----------------------------------------------------------------------------
\* C5: a successful emergency_withdraw leaves the whole pool record unchanged
\* (accrued_token_per_share, last_reward_block, end_block, the bonus window,
\* reward_amount) and leaves every other position unchanged.
C5_EmergencyTouchesNothingElse ==
  [][(last'.op = "emergency_withdraw" /\ last'.err = "Ok") =>
       /\ pool' = pool
       /\ \A q \in Positions \ {last'.pos} : user'[q] = user[q]
    ]_vars

\* an emergency_withdraw of a stake at a slot where update_pool would have
\* moved the pool, while the other depositor holds a stake
C5_Witness ==
  /\ Did({"emergency_withdraw"})
  /\ last.principal > 0
  /\ now > pool.last_reward_block
  /\ pool.last_reward_block < pool.end_block
  /\ \E q \in Positions \ {last.pos} : user[q].exists /\ user[q].amount > 0

----------------------------------------------------------------------------
\* C6: withdraw(amount) by a depositor on their own position with amount
\* greater than the stake is rejected by the amount check, whatever the slot,
\* and leaves pool, positions and balances as they were.
C6_WithdrawTooMuchRejected ==
  \A c \in OwnCalls, amount \in Amounts \cup {U64Max} :
    (withdraw_accounts(State, c[1], c[2], c[3], c[4]) = "Ok"
       /\ amount > user[c[4]].amount) =>
      process_withdraw(State, c[1], c[2], c[3], c[5], c[4], amount)
        = Fail(State, "Panic: Amount to withdraw too high")

\* a withdrawal above a positive stake has just been rejected
C6_Witness ==
  /\ last.op = "withdraw"
  /\ last.err = "Panic: Amount to withdraw too high"
  /\ user[last.pos].amount > 0
  /\ last.amount > user[last.pos].amount

----------------------------------------------------------------------------
\* C7: a successful withdraw(amount) from a stake s has amount <= s, stores the
\* pool as update_pool leaves it, moves exactly amount + pending from the escrow
\* to the depositor, where pending = floor(s * accrued / precision_factor)
\* - reward_debt on the stake before the withdrawal, and leaves the stake at
\* s - amount.
C7_WithdrawEffect ==
  [][(last'.op = "withdraw" /\ last'.err = "Ok") =>
       LET s == user[last'.pos].amount
           amount == last'.amount
           up == update_pool(pool, bal[Vault], now)
           pending == Share(s, pool') - user[last'.pos].reward_debt
       IN /\ amount <= s
          /\ up.err = "Ok"
          /\ pool'.accrued_token_per_share = up.pool.accrued_token_per_share
          /\ pool'.last_reward_block = up.pool.last_reward_block
          /\ pending >= 0
          /\ last'.principal = amount
          /\ last'.reward = pending
          /\ bal'[last'.acct] = bal[last'.acct] + amount + pending
          /\ bal'[Vault] = bal[Vault] - amount - pending
          /\ user'[last'.pos].amount = s - amount
    ]_vars

\* a partial withdrawal that also paid a reward
C7_Witness ==
  /\ Did({"withdraw"})
  /\ last.amount > 0
  /\ last.reward > 0
  /\ user[last.pos].amount > 0

----------------------------------------------------------------------------
\* C8: a successful deposit(amount) on a prior stake s stores the pool as
\* update_pool leaves it, pays the pending reward exactly when s > 0 and
\* pending > 0, moves exactly amount into the escrow and leaves the stake at
\* s + amount, which fits 64 bits; on a stake so large that s + amount does
\* not fit, the deposit fails.
C8_DepositEffect ==
  [][/\ (last'.op = "deposit" /\ last'.err = "Ok") =>
          LET before == IF user[last'.pos].exists THEN user[last'.pos]
                        ELSE NewUserInfo(last'.acct)
              s == before.amount
              amount == last'.amount
              up == update_pool(pool, bal[Vault], now)
              pending == Share(s, pool') - before.reward_debt
              paid == IF s > 0 /\ pending > 0 THEN pending ELSE 0
          IN /\ up.err = "Ok"
             /\ pool'.accrued_token_per_share = up.pool.accrued_token_per_share
             /\ pool'.last_reward_block = up.pool.last_reward_block
             /\ last'.reward = paid
             /\ bal'[Vault] = bal[Vault] + amount - paid
             /\ bal'[last'.acct] = bal[last'.acct] - amount + paid
             /\ user'[last'.pos].amount = s + amount
             /\ s + amount <= U64Max
     /\ \A c \in OwnCalls, amount \in Amounts \ {0} :
          user[c[4]].exists =>
            LET full == [State EXCEPT !.user[c[4]].amount = U64Max]
            IN process_deposit(full, c[1], c[2], c[3], c[5], c[4], amount).err # "Ok"
    ]_vars

\* a deposit on top of a stake that also paid a reward
C8_Witness ==
  /\ Did({"deposit"})
  /\ last.amount > 0
  /\ last.reward > 0
  /\ user[last.pos].amount > last.amount

----------------------------------------------------------------------------
\* C9: a first deposit of X takes exactly X from the depositor, and a
\* withdraw of X that follows it in the same slot leaves the stake at 0 and
\* the reward_debt at 0, pays no reward and gives exactly X back, so the
\* depositor's balance is what it was before the deposit.
C9_RoundTrip ==
  [][/\ (last'.op = "deposit" /\ last'.err = "Ok" /\ last'.first) =>
          bal'[last'.acct] = bal[last'.acct] - last'.amount
     /\ (last'.op = "withdraw" /\ last'.err = "Ok" /\ last'.first) =>
          /\ user'[last'.pos].amount = 0
          /\ user'[last'.pos].reward_debt = 0
          /\ last'.reward = 0
          /\ bal'[last'.acct] = bal[last'.acct] + last'.amount
    ]_vars

\* a round trip of a positive amount through a pool that has accrued
C9_Witness ==
  /\ Did({"withdraw"})
  /\ last.first
  /\ last.amount > 0
  /\ pool.accrued_token_per_share > 0

----------------------------------------------------------------------------
\* C10: after every successful deposit, withdraw and emergency_withdraw the
\* reward_debt of the position equals
\* floor(staked amount * accrued_token_per_share / precision_factor).
C10_RewardDebtSettled ==
  Did({"deposit", "withdraw", "emergency_withdraw"}) =>
    user[last.pos].reward_debt = Share(user[last.pos].amount, pool)

----------------------------------------------------------------------------
\* C11: in every reachable state and for every position,
\* floor(staked amount * accrued_token_per_share / precision_factor) is at
\* least reward_debt, so the subtraction in get_pending cannot underflow.
C11_PendingComputable ==
  \A p \in Positions :
    user[p].exists => Share(user[p].amount, pool) >= user[p].reward_debt

----------------------------------------------------------------------------
\* C12: at all times after the pool is initialized,
\* start_block <= last_reward_block <= min(now, end_block).
C12_CheckpointInRange ==
  pool.is_initialized = 1 =>
    /\ pool.start_block <= pool.last_reward_block
    /\ pool.last_reward_block <= now
    /\ pool.last_reward_block <= pool.end_block

----------------------------------------------------------------------------
\* C13: conservation. In a pool that never had a bonus window, take a state
\* where every staked position is settled at the last checkpoint and some
\* stake is present. The stake has been constant since that checkpoint, and
\* when all depositors now claim (withdraw of 0), in either order, the reward
\* paid to them together is at most reward_per_block * (now - checkpoint).
StateOf(r) == [pool |-> r.pool, user |-> r.user, bal |-> r.bal]

ClaimBy(s, a) == process_withdraw(s, TokenOwner[a], TRUE, a, Vault, PositionOf(a), 0)

PaidToAll(first, second) ==
  LET r1 == ClaimBy(State, first)
      r2 == ClaimBy(StateOf(r1), second)
  IN r1.reward + r2.reward

SettledAtCheckpoint ==
  /\ pool.is_initialized = 1
  /\ history.bonus_sets = 0
  /\ pool.bonus_end_block = CNone
  /\ now >= pool.last_reward_block
  /\ \E p \in Positions : user[p].exists /\ user[p].amount > 0
  /\ \A p \in Positions :
       (user[p].exists /\ user[p].amount > 0) =>
         user[p].reward_debt = Share(user[p].amount, pool)

----------------------------------------------------------------------------
\* C14: rewards are split by stake share and active time. When the
\* instructions have followed ScenarioB (A stakes at the start, B stakes the
\* same amount halfway, both claim at the end), A's claim pays three quarters
\* of the reward and B's claim one quarter, up to one unit of rounding dust.
C14_SplitByShareAndTime ==
  LET paid_a == (3 * ScenarioB.reward) \div 4
      paid_b == ScenarioB.reward \div 4
  IN /\ (history.scenario \in {"a_paid", "both_paid"} /\ last.acct = "tA") =>
          /\ last.reward >= paid_a - 1
          /\ last.reward <= paid_a
     /\ (history.scenario \in {"b_paid", "both_paid"} /\ last.acct = "tB") =>
          /\ last.reward >= paid_b - 1
          /\ last.reward <= paid_b

----------------------------------------------------------------------------
\* C15: over the lifetime of a pool set_bonus_time succeeds at most once,
\* also after the first window has ended and update_pool has cleared it.
C15_BonusSetOnce == history.bonus_sets <= 1

----------------------------------------------------------------------------
\* C16: while the pool's stored bonus window is set, every set_bonus_time
\* call fails, whoever calls, whatever the arguments and whatever the slot.
AnyOwnerCalls == Principals \X BOOLEAN \X {PoolMint, "X"}

C16_BonusArmedRejects ==
  pool.bonus_end_block # CNone =>
    \A c \in AnyOwnerCalls, m \in WideMultipliers, w \in WideWindows :
      process_set_bonus_time(State, c[1], c[2], c[3], m, w[1], w[2]).err # "Ok"

----------------------------------------------------------------------------
\* C17: a successful set_bonus_time(m, bonus_start, bonus_end) stores
\* end_block = old end_block - (bonus_end - bonus_start) * (m - 1), which is
\* at least now and at least start_block; and the call fails whenever that
\* new end would precede now or start_block.
C17_BonusShortensEnd ==
  [][/\ (last'.op = "set_bonus_time" /\ last'.err = "Ok") =>
          LET m == pool'.bonus_multiplier[1]
              bonus_start == pool'.bonus_start_block[1]
              bonus_end == last'.amount
          IN /\ pool'.end_block = pool.end_block - (bonus_end - bonus_start) * (m - 1)
             /\ pool'.end_block >= now
             /\ pool'.end_block >= pool'.start_block
     /\ \A c \in AnyOwnerCalls, m \in WideMultipliers, w \in WideWindows :
          LET end_block == pool.end_block - (w[2] - w[1]) * (m - 1)
          IN (pool.is_initialized = 1
                /\ (end_block < now \/ end_block < pool.start_block)) =>
               process_set_bonus_time(State, c[1], c[2], c[3], m, w[1], w[2]).err # "Ok"
    ]_vars

----------------------------------------------------------------------------
\* C18: a successful update_end_block(new_end) moves exactly
\* (new_end - end_block) * reward_per_block from the owner's token account
\* into the escrow, stores end_block = new_end and leaves reward_per_block,
\* accrued_token_per_share, last_reward_block, the bonus window and every
\* position unchanged.
C18_ExtensionEffect ==
  [][(last'.op = "update_end_block" /\ last'.err = "Ok") =>
       LET new_end == last'.amount
           to_transfer == (new_end - pool.end_block) * pool.reward_per_block
       IN /\ bal'[last'.acct] = bal[last'.acct] - to_transfer
          /\ bal'[Vault] = bal[Vault] + to_transfer
          /\ pool' = [pool EXCEPT !.end_block = new_end,
                                  !.reward_amount = pool'.reward_amount]
          /\ user' = user
    ]_vars

----------------------------------------------------------------------------
\* C19: update_end_block fails and changes nothing when the pool has ended
\* (now >= end_block) or when new_end <= end_block, whoever calls and from
\* whichever token account.
AnyEndBlocks == WideEndBlocks \cup (0 .. MaxTime + 1)

C19_ExtensionRejected ==
  pool.is_initialized = 1 =>
    \A c \in AnyOwnerCalls, ra \in TokenAccounts, end_block \in AnyEndBlocks :
      (now >= pool.end_block \/ end_block <= pool.end_block) =>
        LET r == process_update_end_block(State, c[1], c[2], c[3], ra, end_block)
        IN r.err # "Ok" /\ StateOf(r) = State

\* the owner has just been refused an extension of a pool that had been
\* extended before
C19_Witness ==
  /\ last.op = "update_end_block"
  /\ last.err \in {"Panic: Cannot shorten", "Panic: Pool already finished"}
  /\ pool.end_block > 3
  /\ (now >= pool.end_block \/ last.amount <= pool.end_block)

----------------------------------------------------------------------------
\* C20: set_bonus_time, update_end_block and update_project_info succeed only
\* when the caller signed, is the owner stored in the pool and supplied the
\* pool's mint; any other call fails and changes nothing.
OwnerCallOk(c) == c[2] /\ c[1] = pool.owner /\ c[3] = pool.mint

OwnerGated(r, c) ==
  /\ r.err = "Ok" => OwnerCallOk(c)
  /\ r.err # "Ok" => StateOf(r) = State

C20_OwnerGated ==
  \A c \in AnyOwnerCalls :
    /\ \A m \in WideMultipliers, w \in WideWindows :
         OwnerGated(process_set_bonus_time(State, c[1], c[2], c[3], m, w[1], w[2]), c)
    /\ \A ra \in TokenAccounts, end_block \in AnyEndBlocks :
         OwnerGated(process_update_end_block(State, c[1], c[2], c[3], ra, end_block), c)
    /\ \A project_info \in ProjectInfos :
         OwnerGated(process_update_project_info(State, c[1], c[2], c[3], project_info), c)

\* the owner has used all three instructions on the pool
C20_Witness ==
  /\ pool.is_initialized = 1
  /\ pool.project_info = "v2"
  /\ pool.bonus_start_block # CNone
  /\ pool.reward_amount > 8
  /\ Did({"set_bonus_time", "update_end_block", "update_project_info"})

----------------------------------------------------------------------------
\* C21: no instruction spans two pools: deposit, withdraw and
\* emergency_withdraw on this pool are rejected when the escrow account
\* supplied is the escrow of another pool, and leave that escrow's balance
\* as it was.
C21_OnePoolOnly ==
  \A c \in OwnCalls, amount \in Amounts :
    \A r \in {process_deposit(State, c[1], c[2], c[3], OtherVault, c[4], amount),
              process_withdraw(State, c[1], c[2], c[3], OtherVault, c[4], amount),
              process_emergency_withdraw(State, c[1], c[2], c[3], OtherVault, c[4])} :
      /\ r.err # "Ok"
      /\ r.bal[OtherVault] = bal[OtherVault]

----------------------------------------------------------------------------
\* the outcome of every instruction that can be sent in the present state
AnyPoolConfigs == MorePoolConfigs \cup {<<20, 6, 3, 1>>}

AnyResults ==
  {process_initialize(State, c[1], c[2], "tO", g[1], g[2], g[3], g[4]) :
     c \in OwnerCalls, g \in AnyPoolConfigs}
  \cup {process_deposit(State, c[1], c[2], c[3], v, c[4], amount) :
           c \in UserCalls, v \in PoolTokenAccounts, amount \in Amounts \cup {U64Max}}
  \cup {process_withdraw(State, c[1], c[2], c[3], v, c[4], amount) :
           c \in UserCalls, v \in PoolTokenAccounts, amount \in Amounts \cup {U64Max}}
  \cup {process_emergency_withdraw(State, c[1], c[2], c[3], v, c[4]) :
           c \in UserCalls, v \in PoolTokenAccounts}
  \cup {process_set_bonus_time(State, c[1], c[2], c[3], m, w[1], w[2]) :
           c \in OwnerCalls, m \in WideMultipliers, w \in WideWindows}
  \cup {process_update_end_block(State, c[1], c[2], c[3], "tO", end_block) :
           c \in OwnerCalls, end_block \in WideEndBlocks}
  \cup {process_update_project_info(State, c[1], c[2], c[3], project_info) :
           c \in OwnerCalls, project_info \in ProjectInfos}

----------------------------------------------------------------------------
\* C23: validation comes before mutation: an instruction rejected by a check
\* of account identity, ownership or signature, or by the decimals check of
\* initialize, has created, written and transferred nothing at the point
\* where it aborts.
ValidationErrors ==
  {"MissingRequiredSignature", "OwnerMismatch", "IllegalOwner",
   "PrivilegeEscalation", "StakePoolMissmatch", "AccountAlreadyInUse",
   "Panic: Token decimals must be inferior to 21"}

C23_ValidationFirst ==
  \A r \in AnyResults : r.err \in ValidationErrors => r.at = State

----------------------------------------------------------------------------
\* C24: initialize fails when end_block <= start_block or when the mint has
\* 21 decimals or more; when it succeeds it has moved exactly reward_amount
\* from the initializer to the escrow and stored reward_per_block =
\* floor(reward_amount / (end_block - start_block)),
\* accrued_token_per_share = 0, last_reward_block = 0,
\* precision_factor_rank = 21 - decimals and no bonus window.
C24_InitializeEffect ==
  \A g \in AnyPoolConfigs :
    LET decimals == g[1]
        reward_amount == g[2]
        start_block == g[3]
        end_block == g[4]
        r == process_initialize(State, PoolOwner, TRUE, "tO", decimals,
                                reward_amount, start_block, end_block)
    IN /\ (end_block <= start_block \/ decimals >= 21) => r.err # "Ok"
       /\ r.err = "Ok" =>
            /\ r.pool.reward_per_block = reward_amount \div (end_block - start_block)
            /\ r.bal["tO"] = bal["tO"] - reward_amount
            /\ r.bal[Vault] = bal[Vault] + reward_amount
            /\ r.pool.accrued_token_per_share = 0
            /\ r.pool.last_reward_block = 0
            /\ r.pool.precision_factor_rank = 21 - decimals
            /\ r.pool.bonus_start_block = CNone
            /\ r.pool.bonus_end_block = CNone
            /\ r.pool.start_block = start_block
            /\ r.pool.end_block = end_block
            /\ r.pool.reward_amount = reward_amount

\* a pool has just been initialized with a reward that does not divide evenly
C24_Witness ==
  /\ Did({"initialize"})
  /\ pool.reward_amount % (pool.end_block - pool.start_block) # 0
  /\ pool.reward_per_block * (pool.end_block - pool.start_block) < pool.reward_amount
  /\ bal[Vault] = pool.reward_amount

----------------------------------------------------------------------------
\* C25: the pool counter starts at 0 and every pool initialization takes the
\* present counter as its index and increments the counter by exactly 1, so
\* the counter only grows; incrementing at the largest 64-bit value fails
\* with the counter-overflow error and leaves the counter as it was.
C25_PoolIndexSequence ==
  [][/\ (last'.op = "initialize" /\ last'.err = "Ok") =>
          /\ increase_counter(master).err = "Ok"
          /\ master' = increase_counter(master).master
          /\ master'.pool_counter = master.pool_counter + 1
     /\ master'.pool_counter >= master.pool_counter
     /\ LET full == [master EXCEPT !.pool_counter = U64Max]
        IN increase_counter(full) = [err |-> "PoolCounterOverflow", master |-> full]
    ]_vars

----------------------------------------------------------------------------
\* C26: a position record can be used again: a deposit of X into a record
\* whose stake is 0 (emptied by withdraw or by emergency_withdraw) succeeds
\* whenever the depositor holds X and update_pool succeeds, pays no reward,
\* takes exactly X and leaves the stake at X and reward_debt at
\* floor(X * accrued_token_per_share / precision_factor).
C26_RecordReusable ==
  [][/\ (last'.op = "deposit" /\ last'.err = "Ok"
           /\ user[last'.pos].exists /\ user[last'.pos].amount = 0) =>
          /\ last'.reward = 0
          /\ bal'[last'.acct] = bal[last'.acct] - last'.amount
          /\ user'[last'.pos].amount = last'.amount
          /\ user'[last'.pos].reward_debt = Share(last'.amount, pool')
     /\ \A c \in OwnCalls, amount \in Amounts :
          (user[c[4]].exists /\ user[c[4]].amount = 0 /\ bal[c[3]] >= amount
             /\ update_pool(pool, bal[Vault], now).err = "Ok") =>
            process_deposit(State, c[1], c[2], c[3], Vault, c[4], amount).err = "Ok"
    ]_vars

----------------------------------------------------------------------------
\* C27: when the slot is past last_reward_block and the staked balance S is
\* not zero, a successful update_pool adds exactly
\* floor(get_multiplier(last_reward_block, slot) * reward_per_block *
\* precision_factor / S) to accrued_token_per_share, rounding down; with rate
\* 10, 50 elapsed slots and S = 100 it adds 5 * precision_factor.
RateTenPool ==
  [EmptyStakePool EXCEPT !.is_initialized = 1, !.precision_factor_rank = 1,
                         !.bonus_multiplier = CSome(1), !.start_block = 0,
                         !.end_block = 100, !.reward_amount = 1000,
                         !.reward_per_block = 10]

C27_AccrualExact ==
  /\ pool.is_initialized = 1 =>
       \A S \in AnyBalance \ {0}, t \in AnyTime :
         LET up == update_pool(pool, S, t)
             units == get_multiplier(pool, pool.last_reward_block, t)
         IN (t > pool.last_reward_block /\ up.err = "Ok") =>
              up.pool.accrued_token_per_share
                = pool.accrued_token_per_share
                  + (units * pool.reward_per_block * PrecisionFactor(pool)) \div S
  /\ update_pool(RateTenPool, 100, 50).pool.accrued_token_per_share
       = 5 * PrecisionFactor(RateTenPool)

\* update_pool has run on the started pool and accrued, and with the present
\* escrow balance the next accrual does not divide evenly
C27_Witness ==
  /\ pool.accrued_token_per_share > 0
  /\ pool.last_reward_block >= pool.start_block
  /\ now > pool.last_reward_block
  /\ bal[Vault] > 0
  /\ update_pool(pool, bal[Vault], now).err = "Ok"
  /\ LET units == get_multiplier(pool, pool.last_reward_block, now)
     IN /\ units > 0
        /\ (units * pool.reward_per_block * PrecisionFactor(pool)) % bal[Vault] # 0

----------------------------------------------------------------------------
\* C28: for every from <= to, and the bonus window unset or set with
\* bonus_start_block < bonus_end_block, get_multiplier(from, to) is the
\* weighted count of the slots of [from, to) that lie in
\* [start_block, end_block): a slot in [bonus_start_block, bonus_end_block)
\* counts bonus_multiplier, any other slot counts 1.
C28_WeightedCount ==
  (/\ pool.is_initialized = 1
   /\ \/ pool.bonus_start_block = CNone /\ pool.bonus_end_block = CNone
      \/ /\ pool.bonus_start_block # CNone /\ pool.bonus_end_block # CNone
         /\ pool.bonus_start_block[1] < pool.bonus_end_block[1]) =>
    \A from \in AnyTime, to \in AnyTime :
      from <= to =>
        LET lo == IF from < pool.start_block THEN pool.start_block ELSE from
            hi == IF pool.end_block < to THEN pool.end_block ELSE to
            inside == {t \in lo .. (hi - 1) :
                         /\ pool.bonus_start_block # CNone
                         /\ pool.bonus_start_block[1] <= t
                         /\ t < pool.bonus_end_block[1]}
            outside == (lo .. (hi - 1)) \ inside
        IN get_multiplier(pool, from, to)
             = Cardinality(inside) * pool.bonus_multiplier[1] + Cardinality(outside)

----------------------------------------------------------------------------
\* C29: whenever deposit, withdraw or set_bonus_time can run on the pool,
\* the balance they pass to update_pool as the staked supply, the amount of
\* the pool's escrow token account, is the sum of the amounts staked in the
\* pool's position records: reward funds are not part of it.
C29_SupplyIsStake ==
  pool.is_initialized = 1 =>
    bal[Vault] = user["tA"].amount + user["tB"].amount

----------------------------------------------------------------------------
\* C30: before start_block nothing accrues: update_pool at a slot before
\* start_block with a staked balance that is not zero succeeds and leaves
\* accrued_token_per_share as it was, and a deposit made before start_block
\* of an amount the depositor holds succeeds, whether or not an earlier
\* deposit was made.
C30_NothingBeforeStart ==
  (pool.is_initialized = 1 /\ now < pool.start_block) =>
    /\ \A S \in AnyBalance \ {0} :
         LET up == update_pool(pool, S, now)
         IN /\ up.err = "Ok"
            /\ up.pool.accrued_token_per_share = pool.accrued_token_per_share
    /\ \A c \in OwnCalls, amount \in Amounts :
         bal[c[3]] >= amount =>
           process_deposit(State, c[1], c[2], c[3], Vault, c[4], amount).err = "Ok"

----------------------------------------------------------------------------
\* C31: after end_block nothing accrues: once an instruction has run
\* update_pool at or after end_block on an escrow that was not empty, every
\* update_pool of the present or a later slot, on the escrow as it is,
\* succeeds and leaves accrued_token_per_share as it was.
C31_NothingAfterEnd ==
  (history.closed /\ now >= pool.end_block) =>
    \A t \in AnyTime :
      t >= now =>
        LET up == update_pool(pool, bal[Vault], t)
        IN /\ up.err = "Ok"
           /\ up.pool.accrued_token_per_share = pool.accrued_token_per_share

----------------------------------------------------------------------------
\* C32 as claimed: every successful update_pool at a slot past the stored
\* bonus_end_block leaves the bonus window unset, whatever the staked balance.
C32_BonusClearedAlways ==
  (pool.is_initialized = 1 /\ pool.bonus_end_block # CNone
     /\ now > pool.bonus_end_block[1]) =>
    \A S \in AnyBalance :
      LET up == update_pool(pool, S, now)
      IN up.err = "Ok" =>
           /\ up.pool.bonus_start_block = CNone
           /\ up.pool.bonus_end_block = CNone
           /\ up.pool.bonus_multiplier = CSome(1)

\* C32: a successful update_pool at a slot past the stored bonus_end_block
\* leaves the bonus window unset and the multiplier at 1 when the slot is past
\* last_reward_block and the staked balance is not zero; when it returns
\* early (slot not past last_reward_block, or balance zero) it leaves the
\* window and the multiplier as stored.
C32_BonusCleared ==
  (pool.is_initialized = 1 /\ pool.bonus_end_block # CNone) =>
    \A S \in AnyBalance, t \in AnyTime :
      LET up == update_pool(pool, S, t)
          bonus(p) == <<p.bonus_start_block, p.bonus_end_block, p.bonus_multiplier>>
      IN (t > pool.bonus_end_block[1] /\ up.err = "Ok") =>
           IF t > pool.last_reward_block /\ S # 0
             THEN bonus(up.pool) = <<CNone, CNone, CSome(1)>>
             ELSE bonus(up.pool) = bonus(pool)

\* a bonus window was set on the pool and an update_pool past its end has
\* cleared it
C32_Witness ==
  /\ history.bonus_sets = 1
  /\ Did({"deposit", "withdraw"})
  /\ pool.bonus_end_block = CNone
  /\ pool.bonus_multiplier = CSome(1)

----------------------------------------------------------------------------
\* C33: whenever the stored pool has a bonus window, both of its ends are
\* set, bonus_start_block < bonus_end_block and
\* bonus_start_block >= start_block.
C33_BonusOrdered ==
  (pool.bonus_start_block # CNone \/ pool.bonus_end_block # CNone) =>
    /\ pool.bonus_start_block # CNone
    /\ pool.bonus_end_block # CNone
    /\ pool.bonus_start_block[1] < pool.bonus_end_block[1]
    /\ pool.bonus_start_block[1] >= pool.start_block

----------------------------------------------------------------------------
\* C34: set_bonus_time fails and leaves pool, positions and balances as
\* they were when bonus_start_block >= bonus_end_block or when
\* bonus_start_block < start_block of the pool, whoever calls it and
\* whatever the multiplier.
C34_BadWindowRejected ==
  pool.is_initialized = 1 =>
    \A c \in OwnerCalls, m \in WideMultipliers, w \in WideWindows :
      (w[1] >= w[2] \/ w[1] < pool.start_block) =>
        LET r == process_set_bonus_time(State, c[1], c[2], c[3], m, w[1], w[2])
        IN r.err # "Ok" /\ StateOf(r) = State

\* the pool has no bonus window and its owner could set one now, and the same
\* call with a window that begins before start_block is refused for that
C34_Witness ==
  /\ pool.is_initialized = 1
  /\ pool.bonus_end_block = CNone
  /\ process_set_bonus_time(State, PoolOwner, TRUE, PoolMint, 1, 1, 2).err = "Ok"
  /\ 0 < pool.start_block
  /\ process_set_bonus_time(State, PoolOwner, TRUE, PoolMint, 1, 0, 1).err
       = "Panic: Cant set early than start time"
  /\ process_set_bonus_time(State, PoolOwner, TRUE, PoolMint, 1, 2, 1).err = "Panic"

----------------------------------------------------------------------------
\* C35: the precision factor of an initialized pool, 10 to the power of its
\* precision_factor_rank = 21 - decimals, fits the 64-bit word of
\* get_precision_factor, so that update_pool, get_pending and
\* get_reward_debt never fail on it.
C35_PrecisionFits ==
  pool.is_initialized = 1 =>
    /\ get_precision_factor(pool.precision_factor_rank) # NONE
    /\ \A S \in AnyBalance, t \in AnyTime : update_pool(pool, S, t).err # "Overflow"

----------------------------------------------------------------------------
\* C36: narrowing to 64 bits is fatal: for the stored accumulator and any
\* amount, get_reward_debt returns floor(amount * accrued_token_per_share /
\* precision_factor) when that fits in 64 bits and fails when it does not,
\* and get_pending likewise returns that value less reward_debt or fails;
\* neither returns a value reduced modulo 2^64.
C36_NarrowingFatal ==
  (pool.is_initialized = 1
     /\ get_precision_factor(pool.precision_factor_rank) # NONE) =>
    \A amount \in Amounts \cup {U64Max}, debt \in {0, 1} :
      LET reward_debt == get_reward_debt(amount, pool.accrued_token_per_share,
                                         pool.precision_factor_rank)
          pending == get_pending(amount, pool.accrued_token_per_share,
                                 pool.precision_factor_rank, debt)
      IN /\ IF Share(amount, pool) <= U64Max
              THEN reward_debt = Share(amount, pool)
              ELSE reward_debt = NONE
         /\ IF Share(amount, pool) - debt \in 0 .. U64Max
              THEN pending = Share(amount, pool) - debt
              ELSE pending = NONE

----------------------------------------------------------------------------
\* C37: in every step reward_amount of the pool changes by exactly the
\* tokens the owner put in (initialize, update_end_block) less the reward
\* paid out, the reward paid being what the depositors' token accounts and
\* stakes gained together, and no step pays more than reward_amount held
\* after the funding of that step; so reward_amount is always the total
\* funded less the total paid.
C37_RewardLedger ==
  [][LET held(b, u) == b["tA"] + b["tB"] + u["tA"].amount + u["tB"].amount
         funded == bal["tO"] - bal'["tO"]
         paid == held(bal', user') - held(bal, user)
     IN /\ funded >= 0
        /\ paid >= 0
        /\ paid <= pool.reward_amount + funded
        /\ pool'.reward_amount = pool.reward_amount + funded - paid
    ]_vars

\* a deposit or withdraw has paid a reward and reward_amount is less than
\* what the owner funded
C37_Witness ==
  /\ Did({"deposit", "withdraw"})
  /\ last.reward > 0
  /\ pool.reward_amount + last.reward = OwnerFunds - bal["tO"]

----------------------------------------------------------------------------
\* C38: the escrow account of the pool holds at least the sum of the amounts
\* staked in the pool's position records, now and after any deposit,
\* withdraw or emergency_withdraw that the program accepts.
C38_PrincipalCovered ==
  LET covered(b, u) == b[Vault] >= u["tA"].amount + u["tB"].amount
  IN /\ covered(bal, user)
     /\ \A c \in UserCalls, e \in PoolTokenAccounts :
          /\ \A amount \in Amounts :
               LET d == process_deposit(State, c[1], c[2], c[3], e, c[4], amount)
                   w == process_withdraw(State, c[1], c[2], c[3], e, c[4], amount)
               IN /\ d.err = "Ok" => covered(d.bal, d.user)
                  /\ w.err = "Ok" => covered(w.bal, w.user)
          /\ LET x == process_emergency_withdraw(State, c[1], c[2], c[3], e, c[4])
             IN x.err = "Ok" => covered(x.bal, x.user)

----------------------------------------------------------------------------
\* C39: last_reward_block never decreases: whatever the instruction and the
\* slot, the value stored after a step is at least the value stored before.
C39_CheckpointNeverDecreases ==
  [][pool'.last_reward_block >= pool.last_reward_block]_vars

----------------------------------------------------------------------------
\* C40: in every reachable state a depositor whose position holds stake can
\* call emergency_withdraw on it with the pool's escrow account and succeeds:
\* the whole stake arrives in the depositor's token account and the position
\* is left with none, also when update_pool would fail in that state and so
\* deposit and withdraw fail.
C40_PrincipalRecoverable ==
  \A c \in OwnCalls :
    user[c[4]].amount > 0 =>
      LET r == process_emergency_withdraw(State, c[1], c[2], c[3], Vault, c[4])
      IN /\ r.err = "Ok"
         /\ r.principal = user[c[4]].amount
         /\ r.bal[c[3]] = bal[c[3]] + user[c[4]].amount
         /\ r.user[c[4]].amount = 0

====
